---- MODULE Spec2Model ----
(***************************************************************************)
(* Subscription billing: the Stripe webhook dispatcher, the StripeService  *)
(* that synchronises provider events into the subscriptions and payments   *)
(* tables, and the REST endpoints of SubscriptionController.                *)
(***************************************************************************)
EXTENDS Integers, Sequences, FiniteSets, TLC

(***************************************************************************)
(* Bounds of the model.                                                    *)
(***************************************************************************)
\* number of HTTP requests handled in one behaviour
MaxRequests == 3
\* last value of the wall clock (milliseconds)
MaxTime == 1
\* number of events the provider emits for a subscription
MaxEvents == 3
\* number of cancel and reactivate requests in flight at once
MaxCalls == 2

(***************************************************************************)
(* Data.                                                                   *)
(***************************************************************************)
\* rows of the users table (the target of the user_id foreign keys)
Users == {"u1", "u2"}
\* an absent user: routeContext.user undefined, metadata.userId missing
NoUser == ""
\* an absent text value (null / undefined / ''), falsy in the code
NoText == ""
\* a NULL timestamp column
Null == -1

SubIds == {"sub_1", "sub_2"}
InvoiceIds == {"in_1", "in_2"}

\* env.STRIPE_WEBHOOK_SECRET, and the signatures a request can carry: no
\* header, a signature made with the endpoint's secret, one made without it
WebhookSecret == "whsec_endpoint"
NoSignature == ""
Signatures == {NoSignature, WebhookSecret, "whsec_other"}

\* new Date(seconds * 1000)
DateOfSeconds(s) == s * 1000

\* JavaScript truthiness of a number | null (null is carried as 0)
Truthy(n) == n # 0

(***************************************************************************)
(* Provider objects carried by events (Stripe.Subscription, Stripe.Invoice)*)
(***************************************************************************)
Sub(id, userId, customer, price, status, cape, period, trial, canceled) ==
    [ id |-> id,
      metadata |-> [userId |-> userId],
      customer |-> customer,
      price |-> price,
      product |-> IF price = "price_1" THEN "prod_1" ELSE "prod_2",
      status |-> status,
      cancel_at_period_end |-> cape,
      current_period_start |-> period,
      current_period_end |-> period + 1,
      trial_start |-> trial,
      trial_end |-> IF trial = 0 THEN 0 ELSE trial + 1,
      canceled_at |-> canceled ]

\* what the provider puts in an event depends on the event's type: a created
\* event carries a fresh subscription, a deleted event a canceled one
CreatedObjects ==
    UNION { { Sub(i, "u1", "cus_1", "price_1", "active", FALSE, 1, 0, 0),
              Sub(i, "u1", "cus_1", "price_1", "incomplete", FALSE, 1, 0, 0),
              Sub(i, "u2", "cus_2", "price_1", "trialing", FALSE, 1, 1, 0),
              Sub(i, NoUser, "cus_1", "price_1", "active", FALSE, 1, 0, 0) }
            : i \in SubIds }

UpdatedObjects ==
    UNION { { Sub(i, "u1", "cus_1", "price_1", "active", FALSE, 1, 0, 0),
              Sub(i, "u1", "cus_1", "price_2", "active", TRUE, 2, 0, 3),
              Sub(i, "u2", "cus_2", "price_1", "past_due", FALSE, 2, 1, 0) }
            : i \in SubIds }

DeletedObjects ==
    { Sub(i, "u1", "cus_1", "price_1", "canceled", FALSE, 2, 0, 3) : i \in SubIds }

SubscriptionEventTypes ==
    { "customer.subscription.created",
      "customer.subscription.updated",
      "customer.subscription.deleted" }

SubscriptionObjects == CreatedObjects \cup UpdatedObjects \cup DeletedObjects

Inv(id, userId, sdUserId, pi, sub) ==
    [ id |-> id,
      metadata |-> [userId |-> userId],
      subscription_details |-> [metadata |-> [userId |-> sdUserId]],
      payment_intent |-> pi,
      subscription |-> sub,
      customer |-> "cus_1",
      amount_paid |-> 4900,
      currency |-> "usd",
      description |-> NoText,
      hosted_invoice_url |-> "https://invoice.stripe.com/i",
      paid_at |-> 2 ]

InvoiceObjects ==
    { Inv("in_1", "u1", NoUser, "pi_1", "sub_1"),
      Inv("in_1", "u1", NoUser, NoText, NoText),
      Inv("in_2", NoUser, "u2", "pi_1", NoText),
      Inv("in_2", NoUser, "u2", NoText, "sub_2"),
      Inv("in_2", NoUser, NoUser, "pi_2", NoText) }

Events ==
    [type : {"customer.subscription.created"}, object : CreatedObjects]
    \cup [type : {"customer.subscription.updated"}, object : UpdatedObjects]
    \cup [type : {"customer.subscription.deleted"}, object : DeletedObjects]
    \cup [type : {"invoice.payment_succeeded"}, object : InvoiceObjects]
    \cup { [type |-> "invoice.payment_failed",
            object |-> Inv("in_1", "u1", NoUser, "pi_1", "sub_1")],
           [type |-> "customer.subscription.trial_will_end",
            object |-> Sub("sub_1", "u2", "cus_2", "price_1", "trialing", FALSE, 1, 1, 0)],
           [type |-> "charge.succeeded", object |-> [id |-> "ch_1"]] }

\* the events a request that fails verification carries in this model
UnverifiedEvents ==
    { e \in Events : /\ e.object.id \in {"sub_1", "in_1"}
                     /\ e.object.metadata.userId = "u1"
                     /\ e.object.customer = "cus_1"
                     /\ e.type \in SubscriptionEventTypes => e.object.status # "incomplete" }

(***************************************************************************)
(* State.                                                                  *)
(***************************************************************************)
VARIABLES
    subscriptions,  \* the subscriptions table: id -> row
    payments,       \* the payments table: id -> row
    stripe,         \* the provider: customers, checkout sessions, subscriptions
    now,            \* the wall clock read by new Date()
    req,            \* the request handled last
    resp,           \* its response
    called,         \* the service methods and database statements it ran
    pre,            \* the tables and the provider as they were before it
    repeated,       \* it is the same request as the one handled just before it
    undo,           \* the request handled just before it, when that was a cancel
                    \* answered 200: its user and the subscriptions table before it
    emitted,        \* the events the provider has emitted for its subscription
    deliveries,     \* the positions in emitted of the events delivered, in order
    calls,          \* the cancel and reactivate requests in flight, each with the
                    \* await it has reached
    requests        \* number of requests handled

vars == <<subscriptions, payments, stripe, now, req, resp, called, pre, repeated,
          undo, emitted, deliveries, calls, requests>>

EmptyTable == [k \in {} |-> Null]

(***************************************************************************)
(* StripeService: the webhook handlers.                                    *)
(***************************************************************************)
\* the rowid SQLite gives an inserted row: one more than the largest in the
\* table (no row is ever deleted)
NextRowid(table) == Cardinality(DOMAIN table) + 1

\* INSERT INTO subscriptions: PRIMARY KEY (id), FOREIGN KEY (user_id)
SubscriptionInsertFails(subs, row) ==
    \/ row.id \in DOMAIN subs
    \/ row.userId \notin Users

handleSubscriptionCreated(subs, subscription, t) ==
    IF subscription.metadata.userId = NoUser
    THEN [threw |-> TRUE, subscriptions |-> subs]
    ELSE LET newSub ==
                 [ id |-> subscription.id,
                   userId |-> subscription.metadata.userId,
                   stripeCustomerId |-> subscription.customer,
                   stripePriceId |-> subscription.price,
                   stripeProductId |-> subscription.product,
                   status |-> subscription.status,
                   cancelAtPeriodEnd |-> subscription.cancel_at_period_end,
                   currentPeriodStart |-> DateOfSeconds(subscription.current_period_start),
                   currentPeriodEnd |-> DateOfSeconds(subscription.current_period_end),
                   canceledAt |-> Null,
                   trialStart |-> IF Truthy(subscription.trial_start)
                                  THEN DateOfSeconds(subscription.trial_start) ELSE Null,
                   trialEnd |-> IF Truthy(subscription.trial_end)
                                THEN DateOfSeconds(subscription.trial_end) ELSE Null,
                   createdAt |-> t,
                   updatedAt |-> t,
                   rowid |-> NextRowid(subs) ]
         IN  IF SubscriptionInsertFails(subs, newSub)
             THEN [threw |-> TRUE, subscriptions |-> subs]
             ELSE [threw |-> FALSE, subscriptions |-> (subscription.id :> newSub) @@ subs]

\* an update that also mirrors the event's price and product
handleSubscriptionUpdatedRepriced(subs, subscription, t) ==
    [ threw |-> FALSE,
      subscriptions |->
        [ s \in DOMAIN subs |->
            IF s = subscription.id
            THEN [ subs[s] EXCEPT
                     !.stripePriceId = subscription.price,
                     !.stripeProductId = subscription.product,
                     !.status = subscription.status,
                     !.cancelAtPeriodEnd = subscription.cancel_at_period_end,
                     !.currentPeriodStart = DateOfSeconds(subscription.current_period_start),
                     !.currentPeriodEnd = DateOfSeconds(subscription.current_period_end),
                     !.canceledAt = IF Truthy(subscription.canceled_at)
                                    THEN DateOfSeconds(subscription.canceled_at) ELSE Null,
                     !.updatedAt = t ]
            ELSE subs[s] ] ]

\* an update that also stamps createdAt
handleSubscriptionUpdatedRestamped(subs, subscription, t) ==
    [ threw |-> FALSE,
      subscriptions |->
        [ s \in DOMAIN subs |->
            IF s = subscription.id
            THEN [ subs[s] EXCEPT
                     !.status = subscription.status,
                     !.cancelAtPeriodEnd = subscription.cancel_at_period_end,
                     !.currentPeriodStart = DateOfSeconds(subscription.current_period_start),
                     !.currentPeriodEnd = DateOfSeconds(subscription.current_period_end),
                     !.canceledAt = IF Truthy(subscription.canceled_at)
                                    THEN DateOfSeconds(subscription.canceled_at) ELSE Null,
                     !.createdAt = t,
                     !.updatedAt = t ]
            ELSE subs[s] ] ]

handleSubscriptionUpdated(subs, subscription, t) ==
    [ threw |-> FALSE,
      subscriptions |->
        [ s \in DOMAIN subs |->
            IF s = subscription.id
            THEN [ subs[s] EXCEPT
                     !.status = subscription.status,
                     !.cancelAtPeriodEnd = subscription.cancel_at_period_end,
                     !.currentPeriodStart = DateOfSeconds(subscription.current_period_start),
                     !.currentPeriodEnd = DateOfSeconds(subscription.current_period_end),
                     !.canceledAt = IF Truthy(subscription.canceled_at)
                                    THEN DateOfSeconds(subscription.canceled_at) ELSE Null,
                     !.updatedAt = t ]
            ELSE subs[s] ] ]

handleSubscriptionDeleted(subs, subscription, t) ==
    [ threw |-> FALSE,
      subscriptions |->
        [ s \in DOMAIN subs |->
            IF s = subscription.id
            THEN [ subs[s] EXCEPT
                     !.status = "canceled",
                     !.canceledAt = t,
                     !.updatedAt = t ]
            ELSE subs[s] ] ]

\* a || b on text values
OrElse(a, b) == IF a # NoText THEN a ELSE b

\* INSERT INTO payments: PRIMARY KEY (id), FOREIGN KEY (user_id),
\* FOREIGN KEY (subscription_id), which may be NULL
PaymentInsertFails(pays, subs, row) ==
    \/ row.id \in DOMAIN pays
    \/ row.userId \notin Users
    \/ (row.subscriptionId # NoText /\ row.subscriptionId \notin DOMAIN subs)

handleInvoicePaymentSucceeded(pays, subs, invoice, t) ==
    LET userId == OrElse(invoice.metadata.userId,
                         invoice.subscription_details.metadata.userId)
    IN  IF userId = NoUser
        THEN [threw |-> FALSE, inserted |-> FALSE, payments |-> pays]
        ELSE LET newPayment ==
                     [ id |-> OrElse(invoice.payment_intent, "pi_" \o invoice.id),
                       userId |-> userId,
                       subscriptionId |-> invoice.subscription,
                       stripeInvoiceId |-> invoice.id,
                       stripeCustomerId |-> invoice.customer,
                       amount |-> invoice.amount_paid,
                       currency |-> invoice.currency,
                       status |-> "succeeded",
                       description |-> OrElse(invoice.description, "Subscription payment"),
                       receiptUrl |-> invoice.hosted_invoice_url,
                       createdAt |-> t,
                       paidAt |-> DateOfSeconds(invoice.paid_at) ]
             IN  IF PaymentInsertFails(pays, subs, newPayment)
                 THEN [threw |-> TRUE, inserted |-> FALSE, payments |-> pays]
                 ELSE [threw |-> FALSE, inserted |-> TRUE,
                       payments |-> (newPayment.id :> newPayment) @@ pays]

\* a verification that accepts whatever signature the request carries
verifyWebhookSignatureAny(signature, webhookSecret) == TRUE

\* stripe.webhooks.constructEvent: TRUE when it returns the event, FALSE
\* when it throws
verifyWebhookSignature(signature, webhookSecret) == signature = webhookSecret

(***************************************************************************)
(* The webhook controller: POST /api/webhooks/stripe.                      *)
(***************************************************************************)
\* the switch on event.type; handler is the StripeService method it awaits
dispatch(event, subs, pays, t) ==
    CASE event.type = "customer.subscription.created" ->
           LET r == handleSubscriptionCreated(subs, event.object, t)
           IN  [handler |-> "handleSubscriptionCreated", threw |-> r.threw,
                subscriptions |-> r.subscriptions, payments |-> pays]
      [] event.type = "customer.subscription.updated" ->
           LET r == handleSubscriptionUpdated(subs, event.object, t)
           IN  [handler |-> "handleSubscriptionUpdated", threw |-> r.threw,
                subscriptions |-> r.subscriptions, payments |-> pays]
      [] event.type = "customer.subscription.deleted" ->
           LET r == handleSubscriptionDeleted(subs, event.object, t)
           IN  [handler |-> "handleSubscriptionDeleted", threw |-> r.threw,
                subscriptions |-> r.subscriptions, payments |-> pays]
      [] event.type = "invoice.payment_succeeded" ->
           LET r == handleInvoicePaymentSucceeded(pays, subs, event.object, t)
           IN  [handler |-> "handleInvoicePaymentSucceeded", threw |-> r.threw,
                subscriptions |-> subs, payments |-> r.payments]
      [] OTHER ->
           [handler |-> "none", threw |-> FALSE,
            subscriptions |-> subs, payments |-> pays]

\* a handler's exception reaching the outer catch
ProcessedResponseRethrown(threw) ==
    IF threw
    THEN [status |-> 500, body |-> [received |-> FALSE, error |-> "Webhook handler error"]]
    ELSE [status |-> 200, body |-> [received |-> TRUE, error |-> NoText]]

\* the response once the event is verified: the switch returned, or threw
ProcessedResponse(threw) ==
    [ status |-> 200,
      body |-> [received |-> TRUE,
                error |-> IF threw THEN "Processing failed" ELSE NoText] ]

handleStripeWebhook(request, subs, pays, t) ==
    IF request.signature = NoSignature
    THEN [ resp |-> [status |-> 400, body |-> "Missing signature"],
           called |-> {}, subscriptions |-> subs, payments |-> pays ]
    ELSE IF ~verifyWebhookSignature(request.signature, WebhookSecret)
    THEN [ resp |-> [status |-> 400, body |-> "Invalid signature"],
           called |-> {"verifyWebhookSignature"},
           subscriptions |-> subs, payments |-> pays ]
    ELSE LET d == dispatch(request.event, subs, pays, t)
         IN  [ resp |-> ProcessedResponse(d.threw),
               called |-> {"verifyWebhookSignature"} \cup
                          (IF d.handler = "none" THEN {} ELSE {d.handler}),
               subscriptions |-> d.subscriptions, payments |-> d.payments ]

(***************************************************************************)
(* StripeService: the methods behind the REST endpoints.                   *)
(***************************************************************************)
\* LIMIT 1 with no ORDER BY: of the rows that match, the one the scan meets
\* first, which in SQLite is the one of least rowid (the indexes on user_id
\* and on status keep equal keys in rowid order); none when no row matches
Limit1(rows) == { r \in rows : \A o \in rows : r.rowid <= o.rowid }

\* the query without its condition on status
getUserSubscriptionAnyStatus(subs, userId) ==
    Limit1({ subs[s] : s \in { k \in DOMAIN subs : subs[k].userId = userId } })

\* SELECT ... WHERE user_id = ? AND status = 'active' LIMIT 1: the row the
\* query returns, as a set; empty when no row matches
getUserSubscription(subs, userId) ==
    Limit1({ subs[s] : s \in { k \in DOMAIN subs :
                                 subs[k].userId = userId /\ subs[k].status = "active" } })

hasActiveSubscription(subs, userId) == getUserSubscription(subs, userId) # {}

\* a cancellation that ends the subscription at once
cancelSubscriptionNow(subs, subscriptionId, t) ==
    [ s \in DOMAIN subs |->
        IF s = subscriptionId
        THEN [subs[s] EXCEPT !.cancelAtPeriodEnd = TRUE, !.status = "canceled",
                             !.canceledAt = t, !.updatedAt = t]
        ELSE subs[s] ]

\* the UPDATE of cancelSubscription
cancelSubscription(subs, subscriptionId, t) ==
    [ s \in DOMAIN subs |->
        IF s = subscriptionId
        THEN [subs[s] EXCEPT !.cancelAtPeriodEnd = TRUE, !.updatedAt = t]
        ELSE subs[s] ]

\* a reactivation that touches the row without clearing the flag
reactivateSubscriptionTouched(subs, subscriptionId, t) ==
    [ s \in DOMAIN subs |->
        IF s = subscriptionId
        THEN [subs[s] EXCEPT !.updatedAt = t]
        ELSE subs[s] ]

\* the UPDATE of reactivateSubscription
reactivateSubscription(subs, subscriptionId, t) ==
    [ s \in DOMAIN subs |->
        IF s = subscriptionId
        THEN [subs[s] EXCEPT !.cancelAtPeriodEnd = FALSE, !.updatedAt = t]
        ELSE subs[s] ]

\* stripe.subscriptions.update(id, {cancel_at_period_end})
StripeSubscriptionsUpdate(st, subscriptionId, cape) ==
    [st EXCEPT !.cancel_at_period_end[subscriptionId] = cape]

\* SELECT ... WHERE user_id = ? LIMIT 1 of getOrCreateCustomer: the customer
\* id of the row it returns
ExistingCustomers(subs, userId) ==
    { row.stripeCustomerId :
        row \in Limit1({ subs[k] : k \in { k \in DOMAIN subs : subs[k].userId = userId } }) }

\* stripe.customers.create({email, name, metadata: {userId}})
NewCustomerId(st) == "cus_new_" \o ToString(Cardinality(DOMAIN st.customers) + 1)

StripeCustomersCreate(st, userId) ==
    [st EXCEPT !.customers =
        (NewCustomerId(st) :> [metadata |-> [userId |-> userId]]) @@ st.customers]

\* stripe.checkout.sessions.create: the session carries the userId in its own
\* metadata; the parameters hold no subscription_data
StripeCheckoutSessionsCreate(st, customerId, priceId, userId) ==
    [st EXCEPT !.sessions = Append(st.sessions,
        [ id |-> "cs_" \o ToString(Len(st.sessions) + 1),
          customer |-> customerId,
          price |-> priceId,
          metadata |-> [userId |-> userId],
          subscription_data |-> [metadata |-> [userId |-> NoUser]],
          subscription |-> NoText ])]

(***************************************************************************)
(* SubscriptionController: the REST endpoints.                             *)
(***************************************************************************)
CheckoutRoute == "/api/subscription/create-checkout-session"
PortalRoute == "/api/subscription/create-portal-session"
StatusRoute == "/api/subscription/status"
CancelRoute == "/api/subscription/cancel"
ReactivateRoute == "/api/subscription/reactivate"
PricesRoute == "/api/subscription/prices"

ApiRoutes ==
    {CheckoutRoute, PortalRoute, StatusRoute, CancelRoute, ReactivateRoute, PricesRoute}

\* the cancel controller without its check of routeContext.user
RejectsAnonymousButCancel(route) ==
    route \in ApiRoutes \ {PricesRoute, CancelRoute}

\* if (!routeContext.user) return createErrorResponse('Unauthorized', 401),
\* the first statement of every controller but getPrices
RejectsAnonymous(route) == route \in ApiRoutes \ {PricesRoute}

ErrorResponse(message, status) ==
    [status |-> status, body |-> [success |-> FALSE, error |-> message]]

SuccessResponse(data) ==
    [status |-> 200, body |-> [success |-> TRUE, data |-> data]]

\* BaseController.handleError: the response of a controller whose body threw
HandleError == ErrorResponse("Internal error", 500)

\* the outcome of a controller: response, statements run, tables, provider
Outcome(r, c, subs, st) ==
    [resp |-> r, called |-> c, subscriptions |-> subs, stripe |-> st]

Unauthorized(subs, st) == Outcome(ErrorResponse("Unauthorized", 401), {}, subs, st)

NoActiveSubscription(subs, st) ==
    Outcome(ErrorResponse("No active subscription found", 404), {"db.select"}, subs, st)

\* the data of GET /api/subscription/status for the row the query returned
StatusData(found) ==
    IF found = {}
    THEN {[hasActiveSubscription |-> FALSE, subscription |-> <<>>]}
    ELSE { [ hasActiveSubscription |-> TRUE,
             subscription |-> << [ id |-> row.id,
                                   status |-> row.status,
                                   currentPeriodEnd |-> row.currentPeriodEnd,
                                   cancelAtPeriodEnd |-> row.cancelAtPeriodEnd ] >> ]
           : row \in found }

\* the outcomes of getSubscriptionStatus
getSubscriptionStatus(user, subs, st) ==
    IF RejectsAnonymous(StatusRoute) /\ user = NoUser
    THEN {Unauthorized(subs, st)}
    ELSE { Outcome(SuccessResponse(d), {"db.select"}, subs, st)
           : d \in StatusData(getUserSubscription(subs, user)) }

\* the outcomes of the cancel controller; apiOk: the provider call returned
cancelController(user, apiOk, subs, st, t) ==
    IF RejectsAnonymous(CancelRoute) /\ user = NoUser
    THEN {Unauthorized(subs, st)}
    ELSE IF getUserSubscription(subs, user) = {}
    THEN {NoActiveSubscription(subs, st)}
    ELSE { IF apiOk
           THEN Outcome(SuccessResponse("Subscription will be canceled at the end of the billing period"),
                        {"db.select", "stripe.subscriptions.update", "db.update"},
                        cancelSubscription(subs, row.id, t),
                        StripeSubscriptionsUpdate(st, row.id, TRUE))
           ELSE Outcome(HandleError, {"db.select", "stripe.subscriptions.update"}, subs, st)
           : row \in getUserSubscription(subs, user) }

\* the outcomes of the reactivate controller
reactivateController(user, apiOk, subs, st, t) ==
    IF RejectsAnonymous(ReactivateRoute) /\ user = NoUser
    THEN {Unauthorized(subs, st)}
    ELSE IF getUserSubscription(subs, user) = {}
    THEN {NoActiveSubscription(subs, st)}
    ELSE { IF apiOk
           THEN Outcome(SuccessResponse("Subscription reactivated successfully"),
                        {"db.select", "stripe.subscriptions.update", "db.update"},
                        reactivateSubscription(subs, row.id, t),
                        StripeSubscriptionsUpdate(st, row.id, FALSE))
           ELSE Outcome(HandleError, {"db.select", "stripe.subscriptions.update"}, subs, st)
           : row \in getUserSubscription(subs, user) }

\* a portal open to a subscription of any status
createPortalSessionAnyStatus(user, apiOk, subs, st) ==
    IF RejectsAnonymous(PortalRoute) /\ user = NoUser
    THEN {Unauthorized(subs, st)}
    ELSE IF getUserSubscriptionAnyStatus(subs, user) = {}
    THEN {NoActiveSubscription(subs, st)}
    ELSE { IF apiOk
           THEN Outcome(SuccessResponse([url |-> "https://billing.stripe.com/" \o row.stripeCustomerId]),
                        {"db.select", "stripe.billingPortal.sessions.create"}, subs, st)
           ELSE Outcome(HandleError,
                        {"db.select", "stripe.billingPortal.sessions.create"}, subs, st)
           : row \in getUserSubscriptionAnyStatus(subs, user) }

\* the outcomes of createPortalSession
createPortalSession(user, apiOk, subs, st) ==
    IF RejectsAnonymous(PortalRoute) /\ user = NoUser
    THEN {Unauthorized(subs, st)}
    ELSE IF getUserSubscription(subs, user) = {}
    THEN {NoActiveSubscription(subs, st)}
    ELSE { IF apiOk
           THEN Outcome(SuccessResponse([url |-> "https://billing.stripe.com/" \o row.stripeCustomerId]),
                        {"db.select", "stripe.billingPortal.sessions.create"}, subs, st)
           ELSE Outcome(HandleError,
                        {"db.select", "stripe.billingPortal.sessions.create"}, subs, st)
           : row \in getUserSubscription(subs, user) }

\* a getOrCreateCustomer that never looks for the user's rows
getOrCreateCustomerAlways(subs, st, userId) ==
    { [ customerId |-> NewCustomerId(st),
        stripe |-> StripeCustomersCreate(st, userId),
        called |-> {"db.select", "stripe.customers.create"} ] }

\* getOrCreateCustomer: the (customer id, provider state, statements) it
\* ends with; the row LIMIT 1 returns decides whether a customer is created
getOrCreateCustomer(subs, st, userId) ==
    { [customerId |-> c, stripe |-> st, called |-> {"db.select"}]
      : c \in ExistingCustomers(subs, userId) \ {NoText} }
    \cup
    ( IF ExistingCustomers(subs, userId) \subseteq {NoText}
      THEN { [ customerId |-> NewCustomerId(st),
               stripe |-> StripeCustomersCreate(st, userId),
               called |-> {"db.select", "stripe.customers.create"} ] }
      ELSE {} )

\* the outcomes of the createCheckoutSession controller; bodyOk: the request
\* body parses as JSON; apiOk: the provider calls return (when FALSE the
\* first of them throws)
createCheckoutSession(user, bodyOk, priceId, apiOk, subs, st) ==
    IF RejectsAnonymous(CheckoutRoute) /\ user = NoUser
    THEN {Unauthorized(subs, st)}
    ELSE IF ~bodyOk
    THEN {Outcome(ErrorResponse("Invalid request body", 400), {}, subs, st)}
    ELSE { IF apiOk
           THEN Outcome(SuccessResponse([sessionId |-> "cs_" \o ToString(Len(c.stripe.sessions) + 1)]),
                        c.called \cup {"stripe.checkout.sessions.create"},
                        subs,
                        StripeCheckoutSessionsCreate(c.stripe, c.customerId, priceId, user))
           ELSE Outcome(HandleError,
                        IF "stripe.customers.create" \in c.called
                        THEN c.called
                        ELSE c.called \cup {"stripe.checkout.sessions.create"},
                        subs, st)
           : c \in getOrCreateCustomer(subs, st, user) }

\* the outcomes of getPrices
getPrices(apiOk, subs, st) ==
    IF apiOk
    THEN {Outcome(SuccessResponse([prices |-> {"price_1", "price_2"}]),
                  {"stripe.prices.list"}, subs, st)}
    ELSE {Outcome(HandleError, {"stripe.prices.list"}, subs, st)}

\* the controller adaptController runs for a route
Controller(request, subs, st, t) ==
    CASE request.route = CheckoutRoute ->
           createCheckoutSession(request.user, request.bodyOk, request.priceId,
                                 request.apiOk, subs, st)
      [] request.route = PortalRoute ->
           createPortalSession(request.user, request.apiOk, subs, st)
      [] request.route = StatusRoute ->
           getSubscriptionStatus(request.user, subs, st)
      [] request.route = CancelRoute ->
           cancelController(request.user, request.apiOk, subs, st, t)
      [] request.route = ReactivateRoute ->
           reactivateController(request.user, request.apiOk, subs, st, t)
      [] request.route = PricesRoute ->
           getPrices(request.apiOk, subs, st)

\* the requests of the model: any endpoint without a user; with a user, each
\* endpoint with its provider call returning or throwing, and a checkout
\* whose body does not parse
ApiRequests ==
    [ route : ApiRoutes, user : {NoUser},
      bodyOk : {TRUE}, priceId : {"price_1"}, apiOk : {TRUE} ]
    \cup [ route : {CheckoutRoute, PortalRoute, CancelRoute, ReactivateRoute},
           user : Users, bodyOk : {TRUE}, priceId : {"price_1"}, apiOk : BOOLEAN ]
    \cup [ route : {StatusRoute}, user : Users,
           bodyOk : {TRUE}, priceId : {"price_1"}, apiOk : {TRUE} ]
    \cup [ route : {PricesRoute}, user : {"u1"},
           bodyOk : {TRUE}, priceId : {"price_1"}, apiOk : BOOLEAN ]
    \cup [ route : {CheckoutRoute}, user : Users,
           bodyOk : {FALSE}, priceId : {"price_1"}, apiOk : {TRUE} ]

NoCancel == [user |-> NoUser, subscriptions |-> EmptyTable]

\* what the next request finds to undo: the request handled last was a cancel
\* answered 200
Undoable ==
    IF req.route = CancelRoute /\ resp.status = 200
    THEN [user |-> req.user, subscriptions |-> pre.subscriptions]
    ELSE NoCancel

\* adaptController: one request, handled by its route's controller
Handle(request) ==
    /\ requests < MaxRequests
    /\ \E r \in Controller(request, subscriptions, stripe, now) :
         /\ req' = request
         /\ repeated' = (request = req)
         /\ resp' = r.resp
         /\ called' = r.called
         /\ subscriptions' = r.subscriptions
         /\ stripe' = r.stripe
    /\ pre' = [subscriptions |-> subscriptions, payments |-> payments, stripe |-> stripe]
    /\ undo' = Undoable
    /\ requests' = requests + 1
    /\ UNCHANGED <<payments, now>>

\* setupSubscriptionRoutes: one request to one of the six endpoints
ApiCall ==
    /\ \E request \in ApiRequests : Handle(request)
    /\ UNCHANGED <<emitted, deliveries, calls>>

WebhookRoute == "/api/webhooks/stripe"

WebhookRequests ==
    [route : {WebhookRoute}, user : {NoUser}, signature : {WebhookSecret}, event : Events]
    \cup [route : {WebhookRoute}, user : {NoUser},
          signature : Signatures \ {WebhookSecret}, event : UnverifiedEvents]

\* setupWebhookRoutes: the route runs handleStripeWebhook on the raw request
Post(request) ==
    /\ requests < MaxRequests
    /\ LET r == handleStripeWebhook(request, subscriptions, payments, now)
       IN  /\ req' = request
           /\ repeated' = (request = req)
           /\ resp' = r.resp
           /\ called' = r.called
           /\ subscriptions' = r.subscriptions
           /\ payments' = r.payments
    /\ pre' = [subscriptions |-> subscriptions, payments |-> payments, stripe |-> stripe]
    /\ undo' = Undoable
    /\ requests' = requests + 1
    /\ UNCHANGED <<stripe, now>>

\* a webhook request from anyone, carrying any event
StripeWebhook ==
    /\ \E request \in WebhookRequests : Post(request)
    /\ UNCHANGED <<emitted, deliveries, calls>>

\* time passes between requests
Tick ==
    /\ now < MaxTime
    /\ now' = now + 1
    /\ UNCHANGED <<subscriptions, payments, stripe, req, resp, called, pre, repeated,
                   undo, emitted, deliveries, calls, requests>>

NoRequest == [route |-> "none", user |-> NoUser]

\* the provider before any call: no customer or session of this application,
\* no subscription pending cancellation
StripeInit ==
    [ customers |-> EmptyTable,
      sessions |-> <<>>,
      subscriptions |-> EmptyTable,
      cancel_at_period_end |-> [s \in SubIds |-> FALSE] ]

Init ==
    /\ subscriptions = EmptyTable
    /\ payments = EmptyTable
    /\ stripe = StripeInit
    /\ now = 0
    /\ req = NoRequest
    /\ resp = [status |-> 0, body |-> NoText]
    /\ called = {}
    /\ pre = [subscriptions |-> EmptyTable, payments |-> EmptyTable, stripe |-> StripeInit]
    /\ repeated = FALSE
    /\ undo = NoCancel
    /\ emitted = <<>>
    /\ deliveries = <<>>
    /\ calls = <<>>
    /\ requests = 0

Next ==
    \/ StripeWebhook
    \/ ApiCall
    \/ Tick

Spec == Init /\ [][Next]_vars

(***************************************************************************)
(* The provider's side of one subscription: it creates the subscription    *)
(* (from a completed checkout session, or through its own API), changes it,*)
(* ends it, and emits an event with the subscription as it then is; the    *)
(* endpoint receives the emitted events in any order, any number of times. *)
(***************************************************************************)
ProviderSubId == "sub_1"

Emit(type, object) == Append(emitted, [type |-> type, object |-> object])

\* the customer pays a session made by createCheckoutSession: the provider
\* creates the subscription with the session's customer and price and with
\* the metadata of the session's subscription_data
CompleteCheckout ==
    /\ Len(emitted) < MaxEvents
    /\ stripe.subscriptions = EmptyTable
    /\ \E k \in 1..Len(stripe.sessions), status \in {"incomplete", "active"} :
         LET session == stripe.sessions[k]
             object == Sub(ProviderSubId, session.subscription_data.metadata.userId,
                           session.customer, session.price, status, FALSE, 1, 0, 0)
         IN  /\ stripe' = [stripe EXCEPT
                             !.subscriptions = (ProviderSubId :> object),
                             !.sessions[k].subscription = ProviderSubId]
             /\ emitted' = Emit("customer.subscription.created", object)
    /\ UNCHANGED <<subscriptions, payments, now, req, resp, called, pre, repeated,
                   undo, deliveries, calls, requests>>

\* a subscription created through the provider's API with the userId in its
\* metadata
ProviderCreate ==
    /\ Len(emitted) < MaxEvents
    /\ stripe.subscriptions = EmptyTable
    /\ \E user \in Users, status \in {"incomplete", "active"} :
         LET object == Sub(ProviderSubId, user, "cus_1", "price_1", status, FALSE, 1, 0, 0)
         IN  /\ stripe' = [stripe EXCEPT !.subscriptions = (ProviderSubId :> object)]
             /\ emitted' = Emit("customer.subscription.created", object)
    /\ UNCHANGED <<subscriptions, payments, now, req, resp, called, pre, repeated,
                   undo, deliveries, calls, requests>>

\* what can happen to a live subscription: payment settles or fails, the
\* customer asks to cancel at period end or takes that back, the period
\* renews, the plan changes
ProviderChanges(object) ==
    { [object EXCEPT !.status = "active"],
      [object EXCEPT !.status = "past_due"],
      [object EXCEPT !.cancel_at_period_end = TRUE, !.canceled_at = 3],
      [object EXCEPT !.cancel_at_period_end = FALSE, !.canceled_at = 0],
      [object EXCEPT !.current_period_start = 2, !.current_period_end = 3],
      [object EXCEPT !.price = "price_2", !.product = "prod_2"] } \ {object}

ProviderUpdate ==
    /\ Len(emitted) < MaxEvents
    /\ ProviderSubId \in DOMAIN stripe.subscriptions
    /\ stripe.subscriptions[ProviderSubId].status # "canceled"
    /\ \E object \in ProviderChanges(stripe.subscriptions[ProviderSubId]) :
         /\ stripe' = [stripe EXCEPT !.subscriptions[ProviderSubId] = object]
         /\ emitted' = Emit("customer.subscription.updated", object)
    /\ UNCHANGED <<subscriptions, payments, now, req, resp, called, pre, repeated,
                   undo, deliveries, calls, requests>>

\* the subscription ends
ProviderDelete ==
    /\ Len(emitted) < MaxEvents
    /\ ProviderSubId \in DOMAIN stripe.subscriptions
    /\ stripe.subscriptions[ProviderSubId].status # "canceled"
    /\ LET old == stripe.subscriptions[ProviderSubId]
           object == [old EXCEPT !.status = "canceled",
                                 !.canceled_at = IF Truthy(old.canceled_at)
                                                 THEN old.canceled_at ELSE 4]
       IN  /\ stripe' = [stripe EXCEPT !.subscriptions[ProviderSubId] = object]
           /\ emitted' = Emit("customer.subscription.deleted", object)
    /\ UNCHANGED <<subscriptions, payments, now, req, resp, called, pre, repeated,
                   undo, deliveries, calls, requests>>

\* the provider delivers one of the events it has emitted, signed
Deliver ==
    \E i \in 1..Len(emitted) :
        /\ Post([ route |-> WebhookRoute, user |-> NoUser,
                  signature |-> WebhookSecret, event |-> emitted[i] ])
        /\ deliveries' = Append(deliveries, i)
        /\ UNCHANGED <<emitted, calls>>

CheckoutRequests ==
    [ route : {CheckoutRoute}, user : Users, bodyOk : {TRUE},
      priceId : {"price_1"}, apiOk : {TRUE} ]

\* a user asks for a checkout session
Checkout ==
    /\ \E request \in CheckoutRequests : Handle(request)
    /\ UNCHANGED <<emitted, deliveries, calls>>

SyncNext ==
    \/ Checkout
    \/ CompleteCheckout
    \/ ProviderCreate
    \/ ProviderUpdate
    \/ ProviderDelete
    \/ Deliver

SpecSync == Init /\ [][SyncNext]_vars

(***************************************************************************)
(* Concurrent requests. The Worker serves each request on its own; a       *)
(* controller yields at every await, so the statements of two requests and *)
(* of a webhook delivery interleave between them: the SELECT of            *)
(* getUserSubscription, the provider call and the UPDATE of a cancel or a  *)
(* reactivate are three steps. The provider applies each call at once and  *)
(* emits customer.subscription.updated with the subscription as it then    *)
(* is; the events are delivered in the order emitted, each once.           *)
(***************************************************************************)
CancelOp == "cancel"
ReactivateOp == "reactivate"

\* cancel_at_period_end as each operation sends it
FlagOf(op) == op = CancelOp

\* the controller up to the return of `await stripeService.getUserSubscription`:
\* the request of an authenticated user has its row, or is answered 404
Select(op, user) ==
    /\ Len(calls) < MaxCalls
    /\ LET found == getUserSubscription(subscriptions, user)
       IN  calls' = Append(calls,
               IF found = {}
               THEN [op |-> op, user |-> user, pc |-> "returned", id |-> NoText,
                     resp |-> NoActiveSubscription(subscriptions, stripe).resp]
               ELSE [op |-> op, user |-> user, pc |-> "selected",
                     id |-> (CHOOSE row \in found : TRUE).id,
                     resp |-> [status |-> 0, body |-> NoText]])
    /\ UNCHANGED <<subscriptions, payments, stripe, now, req, resp, called, pre,
                   repeated, undo, emitted, deliveries, requests>>

SelectStep == \E op \in {CancelOp, ReactivateOp}, user \in Users : Select(op, user)

\* stripe.subscriptions.update(id, {cancel_at_period_end}) at the provider:
\* the subscription takes the flag and, when that changes it, an updated
\* event is emitted
ProviderSetsFlag(id, flag) ==
    LET st == StripeSubscriptionsUpdate(stripe, id, flag)
    IN  IF id \in DOMAIN stripe.subscriptions
           /\ stripe.subscriptions[id].cancel_at_period_end # flag
        THEN LET object == [stripe.subscriptions[id] EXCEPT !.cancel_at_period_end = flag]
             IN  /\ Len(emitted) < MaxEvents
                 /\ stripe' = [st EXCEPT !.subscriptions[id] = object]
                 /\ emitted' = Emit("customer.subscription.updated", object)
        ELSE /\ stripe' = st
             /\ UNCHANGED emitted

\* `await this.stripe.subscriptions.update(...)` returns
CallProvider(c) ==
    /\ calls[c].pc = "selected"
    /\ ProviderSetsFlag(calls[c].id, FlagOf(calls[c].op))
    /\ calls' = [calls EXCEPT ![c].pc = "called"]
    /\ UNCHANGED <<subscriptions, payments, now, req, resp, called, pre,
                   repeated, undo, deliveries, requests>>

\* `await this.stripe.subscriptions.update(...)` throws: handleError answers
CallProviderFails(c) ==
    /\ calls[c].pc = "selected"
    /\ calls' = [calls EXCEPT ![c].pc = "returned", ![c].resp = HandleError]
    /\ UNCHANGED <<subscriptions, payments, stripe, now, req, resp, called, pre,
                   repeated, undo, emitted, deliveries, requests>>

\* `await this.db.update(subscriptions)...` runs and the controller answers 200
UpdateRow(c) ==
    /\ calls[c].pc = "called"
    /\ subscriptions' =
         IF calls[c].op = CancelOp
         THEN cancelSubscription(subscriptions, calls[c].id, now)
         ELSE reactivateSubscription(subscriptions, calls[c].id, now)
    /\ calls' = [calls EXCEPT ![c].pc = "returned",
                              ![c].resp = SuccessResponse(
                                  IF calls[c].op = CancelOp
                                  THEN "Subscription will be canceled at the end of the billing period"
                                  ELSE "Subscription reactivated successfully")]
    /\ UNCHANGED <<payments, stripe, now, req, resp, called, pre,
                   repeated, undo, emitted, deliveries, requests>>

CallProviderStep == \E c \in 1..Len(calls) : CallProvider(c)
CallProviderFailsStep == \E c \in 1..Len(calls) : CallProviderFails(c)
UpdateRowStep == \E c \in 1..Len(calls) : UpdateRow(c)

\* the provider delivers the next event it emitted, signed
DeliverInOrder ==
    /\ Len(deliveries) < Len(emitted)
    /\ Post([ route |-> WebhookRoute, user |-> NoUser, signature |-> WebhookSecret,
              event |-> emitted[Len(deliveries) + 1] ])
    /\ deliveries' = Append(deliveries, Len(deliveries) + 1)
    /\ UNCHANGED <<emitted, calls>>

ConcNext ==
    \/ ProviderCreate
    \/ DeliverInOrder
    \/ SelectStep
    \/ CallProviderStep
    \/ CallProviderFailsStep
    \/ UpdateRowStep

SpecConc == Init /\ [][ConcNext]_vars

(***************************************************************************)
(* Properties.                                                             *)
(***************************************************************************)
Handlers ==
    { "handleSubscriptionCreated", "handleSubscriptionUpdated",
      "handleSubscriptionDeleted", "handleInvoicePaymentSucceeded" }

TablesUntouched ==
    /\ subscriptions = pre.subscriptions
    /\ payments = pre.payments

VerifiedWebhook == req.route = WebhookRoute /\ req.signature = WebhookSecret

\* C1: a webhook request with no stripe-signature header, or with a signature
\* that was not made with the endpoint's secret, is answered 400, runs none of
\* the handleSubscription*/handleInvoice* handlers and leaves both tables as
\* they were.
C1_UnverifiedRejected ==
    (req.route = WebhookRoute /\ req.signature # WebhookSecret) =>
        /\ resp.status = 400
        /\ called \cap Handlers = {}
        /\ TablesUntouched

\* a forged customer.subscription.created for an id with no row was rejected
\* while the table held another row
C1_Witness ==
    /\ req.route = WebhookRoute
    /\ req.signature = "whsec_other"
    /\ req.event.type = "customer.subscription.created"
    /\ req.event.object.id \notin DOMAIN pre.subscriptions
    /\ subscriptions # EmptyTable
    /\ resp.status = 400

\* C2: a webhook request whose signature verifies is answered 200 whatever
\* the event's type, also when its handler throws; the body then carries the
\* error 'Processing failed', and carries no error otherwise.
C2_VerifiedAlways200 ==
    VerifiedWebhook =>
        /\ resp.status = 200
        /\ resp.body.received
        /\ resp.body.error =
             IF dispatch(req.event, pre.subscriptions, pre.payments, now).threw
             THEN "Processing failed" ELSE NoText

\* a verified customer.subscription.created for an id that already had a row:
\* the INSERT threw, the answer is 200 with the error
C2_Witness ==
    /\ VerifiedWebhook
    /\ req.event.type = "customer.subscription.created"
    /\ req.event.object.id \in DOMAIN pre.subscriptions
    /\ resp.status = 200
    /\ resp.body.error = "Processing failed"

\* the same verified event delivered twice in a row
DeliveredTwice == VerifiedWebhook /\ repeated

\* C3 as claimed: delivering a verified event twice in a row leaves the
\* subscriptions and payments tables as one delivery left them.
C3_IdempotentExactly == DeliveredTwice => TablesUntouched

\* a row with the columns the second delivery stamps from the clock blanked:
\* updatedAt for an updated or deleted event's row, canceledAt for a deleted one's
Unstamped(row, event) ==
    IF row.id # event.object.id THEN row
    ELSE IF event.type = "customer.subscription.updated"
    THEN [row EXCEPT !.updatedAt = Null]
    ELSE IF event.type = "customer.subscription.deleted"
    THEN [row EXCEPT !.updatedAt = Null, !.canceledAt = Null]
    ELSE row

\* C3 (amended): delivering a verified event twice in a row leaves the payments
\* table as one delivery left it, and the subscriptions table too except for
\* the updatedAt of the event's row (updated and deleted events) and its
\* canceledAt (deleted events), which take the time of the second delivery.
C3_IdempotentButStamps ==
    DeliveredTwice =>
        /\ payments = pre.payments
        /\ DOMAIN subscriptions = DOMAIN pre.subscriptions
        /\ \A s \in DOMAIN subscriptions :
             Unstamped(subscriptions[s], req.event)
               = Unstamped(pre.subscriptions[s], req.event)

\* a customer.subscription.updated delivered twice to an existing row, the
\* clock having advanced in between
C3_Witness ==
    /\ DeliveredTwice
    /\ req.event.type = "customer.subscription.updated"
    /\ req.event.object.id \in DOMAIN subscriptions
    /\ subscriptions[req.event.object.id].updatedAt
         # pre.subscriptions[req.event.object.id].updatedAt

\* C4 as claimed: after a verified created, updated or deleted event for a
\* subscription id (a created event carrying a userId), a row with that id
\* exists, has the event's status, and processing did not fail.
C4_Upserts ==
    ( /\ VerifiedWebhook
      /\ req.event.type \in SubscriptionEventTypes
      /\ req.event.object.metadata.userId # NoUser ) =>
        /\ req.event.object.id \in DOMAIN subscriptions
        /\ subscriptions[req.event.object.id].status = req.event.object.status
        /\ resp.body.error = NoText

Anonymous(route) == req.route = route /\ req.user = NoUser

\* C7: create-checkout-session, create-portal-session, status, cancel and
\* reactivate, called without a user, answer 401 'Unauthorized' and run no
\* provider call and no database statement; prices is served without a user.
C7_AnonymousRejected ==
    /\ \A route \in ApiRoutes \ {PricesRoute} :
         Anonymous(route) =>
            /\ resp = ErrorResponse("Unauthorized", 401)
            /\ called = {}
            /\ TablesUntouched
            /\ stripe = pre.stripe
    /\ Anonymous(PricesRoute) =>
            /\ resp.status # 401
            /\ called = {"stripe.prices.list"}

\* an anonymous cancel while a row was active
C7_Witness ==
    /\ Anonymous(CancelRoute)
    /\ \E s \in DOMAIN subscriptions : subscriptions[s].status = "active"
    /\ resp.status = 401

OwnedActive(subs, user) ==
    { s \in DOMAIN subs : subs[s].userId = user /\ subs[s].status = "active" }

\* C9: the status endpoint, for a user, reports hasActiveSubscription exactly
\* when a row has that userId and status 'active'; the subscription field is
\* non-null exactly then, and describes such a row of that user.
C9_StatusReportsActive ==
    (req.route = StatusRoute /\ req.user # NoUser) =>
        /\ resp.status = 200
        /\ resp.body.data.hasActiveSubscription
             <=> (OwnedActive(subscriptions, req.user) # {})
        /\ resp.body.data.hasActiveSubscription
             <=> (resp.body.data.subscription # <<>>)
        /\ resp.body.data.subscription # <<>> =>
             \E s \in OwnedActive(subscriptions, req.user) :
                resp.body.data.subscription[1] =
                    [ id |-> s,
                      status |-> "active",
                      currentPeriodEnd |-> subscriptions[s].currentPeriodEnd,
                      cancelAtPeriodEnd |-> subscriptions[s].cancelAtPeriodEnd ]

\* the user has an active row and another that is not active, and another
\* user's status request finds nothing
C9_Witness ==
    /\ req.route = StatusRoute
    /\ req.user # NoUser
    /\ \E s \in DOMAIN subscriptions :
         subscriptions[s].userId = req.user /\ subscriptions[s].status # "active"
    /\ resp.body.data.hasActiveSubscription

\* a row with updatedAt blanked
NoUpdatedAt(row) == [row EXCEPT !.updatedAt = Null]

\* C10: a successful cancel sets cancel_at_period_end at the provider and
\* cancelAtPeriodEnd on one active row of the user, changes nothing else but
\* that row's updatedAt (status stays 'active', currentPeriodEnd stays), and
\* the status endpoint still reports an active subscription.
C10_CancelAtPeriodEndOnly ==
    (req.route = CancelRoute /\ resp.status = 200) =>
        /\ \E s \in OwnedActive(pre.subscriptions, req.user) :
             /\ stripe = [pre.stripe EXCEPT !.cancel_at_period_end[s] = TRUE]
             /\ DOMAIN subscriptions = DOMAIN pre.subscriptions
             /\ subscriptions[s].cancelAtPeriodEnd
             /\ NoUpdatedAt(subscriptions[s])
                  = NoUpdatedAt([pre.subscriptions[s] EXCEPT !.cancelAtPeriodEnd = TRUE])
             /\ \A o \in DOMAIN subscriptions \ {s} :
                  subscriptions[o] = pre.subscriptions[o]
        /\ payments = pre.payments
        /\ \A r \in getSubscriptionStatus(req.user, subscriptions, stripe) :
             r.resp.body.data.hasActiveSubscription

\* a cancel that succeeded on a row not yet pending cancellation, beside
\* another row
C10_Witness ==
    /\ req.route = CancelRoute
    /\ resp.status = 200
    /\ Cardinality(DOMAIN subscriptions) = 2
    /\ \E s \in DOMAIN subscriptions :
         /\ subscriptions[s].cancelAtPeriodEnd
         /\ ~pre.subscriptions[s].cancelAtPeriodEnd

\* a row with updatedAt and cancelAtPeriodEnd blanked
NoFlagNoUpdatedAt(row) == [row EXCEPT !.updatedAt = Null, !.cancelAtPeriodEnd = FALSE]

\* a reactivate answered 200 right after the same user's cancel answered 200
CancelThenReactivate ==
    /\ req.route = ReactivateRoute
    /\ resp.status = 200
    /\ undo # NoCancel
    /\ undo.user = req.user

\* C11: a successful cancel followed by the same user's successful reactivate
\* leaves the cancelled subscription with cancelAtPeriodEnd false at the
\* provider and in its row, every other column of the row but updatedAt as it
\* was before the cancel, and every other row as it was; and a successful
\* reactivate of a row that is not pending cancellation changes nothing in
\* the table but that row's updatedAt.
C11_ReactivateUndoesCancel ==
    /\ CancelThenReactivate =>
         \E s \in OwnedActive(undo.subscriptions, req.user) :
            /\ pre.subscriptions[s].cancelAtPeriodEnd
            /\ pre.stripe.cancel_at_period_end[s]
            /\ ~subscriptions[s].cancelAtPeriodEnd
            /\ ~stripe.cancel_at_period_end[s]
            /\ DOMAIN subscriptions = DOMAIN undo.subscriptions
            /\ NoFlagNoUpdatedAt(subscriptions[s]) = NoFlagNoUpdatedAt(undo.subscriptions[s])
            /\ \A o \in DOMAIN subscriptions \ {s} :
                 subscriptions[o] = undo.subscriptions[o]
    /\ (req.route = ReactivateRoute /\ resp.status = 200) =>
         \E s \in OwnedActive(pre.subscriptions, req.user) :
            /\ stripe = [pre.stripe EXCEPT !.cancel_at_period_end[s] = FALSE]
            /\ DOMAIN subscriptions = DOMAIN pre.subscriptions
            /\ ~subscriptions[s].cancelAtPeriodEnd
            /\ NoFlagNoUpdatedAt(subscriptions[s]) = NoFlagNoUpdatedAt(pre.subscriptions[s])
            /\ ~pre.subscriptions[s].cancelAtPeriodEnd =>
                 NoUpdatedAt(subscriptions[s]) = NoUpdatedAt(pre.subscriptions[s])
            /\ \A o \in DOMAIN subscriptions \ {s} :
                 subscriptions[o] = pre.subscriptions[o]
            /\ payments = pre.payments

\* a cancel of a row that was not pending cancellation, then a reactivate,
\* the clock having advanced since the row was written
C11_Witness ==
    /\ CancelThenReactivate
    /\ \E s \in OwnedActive(undo.subscriptions, req.user) :
         /\ ~undo.subscriptions[s].cancelAtPeriodEnd
         /\ pre.subscriptions[s].cancelAtPeriodEnd
         /\ ~subscriptions[s].cancelAtPeriodEnd
         /\ subscriptions[s].updatedAt # undo.subscriptions[s].updatedAt

\* invoice.metadata?.userId || invoice.subscription_details?.metadata?.userId
ResolvedUserId(invoice) ==
    IF invoice.metadata.userId # NoUser
    THEN invoice.metadata.userId
    ELSE invoice.subscription_details.metadata.userId

\* C12 as claimed: after a verified invoice.payment_succeeded event whose
\* userId resolves from invoice.metadata or invoice.subscription_details
\* .metadata, the payments table holds exactly one row of that invoice: its
\* id is the invoice's payment intent, or 'pi_' and the invoice id when there
\* is none, its status 'succeeded', its amount the invoice's amount_paid and
\* its stripeInvoiceId the invoice id.
C12_PaymentTracked ==
    ( /\ VerifiedWebhook
      /\ req.event.type = "invoice.payment_succeeded"
      /\ ResolvedUserId(req.event.object) # NoUser ) =>
        LET invoice == req.event.object
            id == IF invoice.payment_intent # NoText
                  THEN invoice.payment_intent ELSE "pi_" \o invoice.id
        IN  /\ id \in DOMAIN payments
            /\ payments[id].status = "succeeded"
            /\ payments[id].amount = invoice.amount_paid
            /\ payments[id].stripeInvoiceId = invoice.id
            /\ payments[id].userId = ResolvedUserId(invoice)
            /\ Cardinality({ k \in DOMAIN payments :
                               payments[k].stripeInvoiceId = invoice.id }) = 1

\* the customer ids of the user's rows, the empty ones left out
CustomersOf(subs, user) ==
    { subs[k].stripeCustomerId : k \in { k \in DOMAIN subs : subs[k].userId = user } }
        \ {NoText}

\* a checkout session was made for a user: its customer is the one
\* getOrCreateCustomer returned
CheckoutMade == req.route = CheckoutRoute /\ resp.status = 200

\* C13: getOrCreateCustomer, when a row of the user holds a customer id,
\* returns the customer id of such a row and neither calls customers.create
\* nor changes the provider's customers; otherwise it creates exactly one
\* customer, whose metadata carry the userId, and returns its id.
C13_CreatesOrRetrieves ==
    CheckoutMade =>
        LET customer == stripe.sessions[Len(stripe.sessions)].customer
        IN  IF CustomersOf(pre.subscriptions, req.user) # {}
            THEN /\ customer \in CustomersOf(pre.subscriptions, req.user)
                 /\ "stripe.customers.create" \notin called
                 /\ stripe.customers = pre.stripe.customers
            ELSE /\ customer \notin DOMAIN pre.stripe.customers
                 /\ "stripe.customers.create" \in called
                 /\ DOMAIN stripe.customers = DOMAIN pre.stripe.customers \cup {customer}
                 /\ stripe.customers[customer].metadata.userId = req.user
                 /\ \A c \in DOMAIN pre.stripe.customers :
                      stripe.customers[c] = pre.stripe.customers[c]

\* a checkout that reused the customer of the user's row, the provider
\* holding a customer an earlier checkout created
C13_Witness ==
    /\ CheckoutMade
    /\ CustomersOf(pre.subscriptions, req.user) # {}
    /\ stripe.customers # EmptyTable
    /\ stripe.sessions[Len(stripe.sessions)].customer
         \in CustomersOf(pre.subscriptions, req.user)

\* the calls a controller makes to the provider
ProviderCalls ==
    { "stripe.customers.create", "stripe.checkout.sessions.create",
      "stripe.billingPortal.sessions.create", "stripe.subscriptions.update",
      "stripe.prices.list" }

\* a request by a user to one of the endpoints that act on the user's
\* subscription
ManagesSubscription ==
    /\ req.route \in {PortalRoute, CancelRoute, ReactivateRoute}
    /\ req.user # NoUser

\* C14: create-portal-session, cancel and reactivate, called by a user none
\* of whose rows has status 'active', answer 404 'No active subscription
\* found', call the provider for nothing and leave the tables and the
\* provider as they were; so a row that is 'canceled', 'past_due' or
\* 'trialing' is neither cancelled, reactivated nor opened in the portal.
C14_NoActiveNotFound ==
    (ManagesSubscription /\ OwnedActive(pre.subscriptions, req.user) = {}) =>
        /\ resp = ErrorResponse("No active subscription found", 404)
        /\ called \cap ProviderCalls = {}
        /\ stripe = pre.stripe
        /\ TablesUntouched

\* a user whose only row is 'trialing', 'past_due' or 'canceled' was refused
C14_Witness ==
    /\ ManagesSubscription
    /\ \E s \in DOMAIN pre.subscriptions :
         /\ pre.subscriptions[s].userId = req.user
         /\ pre.subscriptions[s].status \in {"canceled", "past_due", "trialing"}
    /\ OwnedActive(pre.subscriptions, req.user) = {}
    /\ resp.status = 404

\* a row with the six columns handleSubscriptionUpdated sets blanked
Frame(row) ==
    [ row EXCEPT !.status = NoText,
                 !.cancelAtPeriodEnd = FALSE,
                 !.currentPeriodStart = Null,
                 !.currentPeriodEnd = Null,
                 !.canceledAt = Null,
                 !.updatedAt = Null ]

UpdatedHandled ==
    VerifiedWebhook /\ req.event.type = "customer.subscription.updated"

\* C16: handleSubscriptionUpdated changes nothing but status,
\* cancelAtPeriodEnd, currentPeriodStart, currentPeriodEnd, canceledAt and
\* updatedAt of the row whose id is the event's subscription id: userId,
\* stripeCustomerId, stripePriceId, stripeProductId, trialStart and trialEnd
\* of that row, every other row and the payments table stay as they were, no
\* row appears, and nothing is written when no row has that id.
C16_UpdatedFrame ==
    UpdatedHandled =>
        LET id == req.event.object.id
        IN  /\ payments = pre.payments
            /\ DOMAIN subscriptions = DOMAIN pre.subscriptions
            /\ \A o \in DOMAIN subscriptions \ {id} :
                 subscriptions[o] = pre.subscriptions[o]
            /\ id \in DOMAIN subscriptions =>
                 /\ Frame(subscriptions[id]) = Frame(pre.subscriptions[id])
                 /\ \A column \in { "userId", "stripeCustomerId", "stripePriceId",
                                     "stripeProductId", "trialStart", "trialEnd" } :
                      subscriptions[id][column] = pre.subscriptions[id][column]
            /\ id \notin DOMAIN pre.subscriptions => subscriptions = pre.subscriptions

\* an updated event whose object has another price and another status than
\* the row it was applied to, beside another row
C16_Witness ==
    /\ UpdatedHandled
    /\ Cardinality(DOMAIN subscriptions) = 2
    /\ req.event.object.id \in DOMAIN subscriptions
    /\ subscriptions[req.event.object.id].stripePriceId # req.event.object.price
    /\ subscriptions[req.event.object.id].cancelAtPeriodEnd
    /\ ~pre.subscriptions[req.event.object.id].cancelAtPeriodEnd

\* every event the provider emitted has been delivered at least once
AllDelivered ==
    /\ Len(emitted) >= 1
    /\ { deliveries[j] : j \in 1..Len(deliveries) } = 1..Len(emitted)

\* C5 as claimed: once every event the provider emitted for a subscription
\* (one that carries a userId) has been delivered, in whatever order and
\* however often, the local row has the status and cancelAtPeriodEnd of the
\* provider's subscription.
C5_Reconciled ==
    (AllDelivered /\ stripe.subscriptions[ProviderSubId].metadata.userId # NoUser) =>
        /\ ProviderSubId \in DOMAIN subscriptions
        /\ subscriptions[ProviderSubId].status
             = stripe.subscriptions[ProviderSubId].status
        /\ subscriptions[ProviderSubId].cancelAtPeriodEnd
             = stripe.subscriptions[ProviderSubId].cancel_at_period_end

\* the events delivered so far are the first ones emitted, in emission order,
\* each once
InOrderOnce ==
    /\ Len(deliveries) >= 1
    /\ \A j \in 1..Len(deliveries) : deliveries[j] = j

\* new Date(seconds * 1000) of a nullable provider timestamp
DateOrNull(seconds) == IF Truthy(seconds) THEN DateOfSeconds(seconds) ELSE Null

\* C6 as claimed: while the events of a subscription (one that carries a
\* userId) are delivered in emission order, each once, the local row has the
\* status, cancelAtPeriodEnd, period, price and product of the subscription
\* object the latest event carried, and its other columns hold that object's
\* values too.
C6_MirrorsLatest ==
    (InOrderOnce /\ emitted[1].object.metadata.userId # NoUser) =>
        LET object == emitted[Len(deliveries)].object
        IN  /\ object.id \in DOMAIN subscriptions
            /\ LET row == subscriptions[object.id]
               IN  /\ row.status = object.status
                   /\ row.cancelAtPeriodEnd = object.cancel_at_period_end
                   /\ row.currentPeriodStart = DateOfSeconds(object.current_period_start)
                   /\ row.currentPeriodEnd = DateOfSeconds(object.current_period_end)
                   /\ row.stripePriceId = object.price
                   /\ row.stripeProductId = object.product
                   /\ row.userId = object.metadata.userId
                   /\ row.stripeCustomerId = object.customer
                   /\ row.canceledAt = DateOrNull(object.canceled_at)
                   /\ row.trialStart = DateOrNull(object.trial_start)
                   /\ row.trialEnd = DateOrNull(object.trial_end)

\* the created event of a subscription has been delivered
CreatedDelivered(subscriptionId) ==
    \E j \in 1..Len(deliveries) :
        /\ emitted[deliveries[j]].type = "customer.subscription.created"
        /\ emitted[deliveries[j]].object.id = subscriptionId

\* C8 as claimed: once a user has completed a checkout session made by
\* createCheckoutSession and the created event of the resulting subscription
\* has been delivered, a row of that subscription exists with the user's id,
\* and the status endpoint reports it to the user when its status is 'active'.
C8_CheckoutActivates ==
    \A k \in 1..Len(stripe.sessions) :
        LET session == stripe.sessions[k]
        IN  (session.subscription # NoText /\ CreatedDelivered(session.subscription)) =>
               /\ session.subscription \in DOMAIN subscriptions
               /\ subscriptions[session.subscription].userId = session.metadata.userId
               /\ subscriptions[session.subscription].status = "active" =>
                    \A r \in getSubscriptionStatus(session.metadata.userId,
                                                   subscriptions, stripe) :
                        r.resp.body.data.hasActiveSubscription

\* every cancel and reactivate request has been answered
AllReturned ==
    /\ Len(calls) >= 1
    /\ \A c \in 1..Len(calls) : calls[c].pc = "returned"

\* C15 as claimed: whatever the interleaving of concurrent cancel and
\* reactivate requests for a subscription with the delivery of the updated
\* events the provider emits for them, once every request has been answered
\* and every event delivered the row's cancelAtPeriodEnd is the provider's
\* cancel_at_period_end.
C15_NoCoordinationNeeded ==
    (AllReturned /\ AllDelivered /\ ProviderSubId \in DOMAIN subscriptions) =>
        subscriptions[ProviderSubId].cancelAtPeriodEnd
            = stripe.subscriptions[ProviderSubId].cancel_at_period_end

====
